---------------------------- MODULE Spec2Model ----------------------------
(***************************************************************************)
(* Analytics endpoints of the notebook backend                             *)
(* (src/vnx-notebook-backend/analyticsController.js): event ingestion      *)
(* (trackEvent) and the three read-only aggregations (getAnalyticsSummary, *)
(* getPopularTags, getUsageStats) over the storage collaborator.           *)
(*                                                                         *)
(* JavaScript values are tagged records: [t |-> "undefined"],              *)
(* [t |-> "null"], [t |-> "string", s |-> ..], [t |-> "number", n |-> ..], *)
(* [t |-> "object", f |-> <function from keys to values>].  Strings that   *)
(* the code parses (query parameters, tags) are sequences of one-character *)
(* strings.  Time is counted in hours since an arbitrary origin.           *)
(***************************************************************************)
EXTENDS Integers, Sequences, FiniteSets, TLC

VARIABLES
    events,   \* rows of the relation TABLES.ANALYTICS names, in insertion order
    notes,    \* rows of the relation TABLES.NOTES names
    now,      \* the clock (new Date()), in hours
    req,      \* the request handled last
    calls,    \* the storage calls the last handler issued, in order
    res,      \* the response the last handler sent
    requests  \* the handler calls the event loop has started, each with its
              \* own locals, suspended at its await or answered

vars == <<events, notes, now, req, calls, res, requests>>

----------------------------------------------------------------------------
(* JavaScript values *)

Undefined == [t |-> "undefined"]
Null == [t |-> "null"]
Str(s) == [t |-> "string", s |-> s]
Num(n) == [t |-> "number", n |-> n]
Obj(f) == [t |-> "object", f |-> f]
Uuid(n) == [t |-> "string", s |-> "uuid", n |-> n]

\* a string the code looks into, as its sequence of characters
Txt(c) == [t |-> "string", c |-> c]

IsString(v) == v.t = "string"
IsObject(v) == v.t = "object"

\* ToBoolean, as || and && and if (...) apply it
Truthy(v) ==
    CASE v.t = "undefined" -> FALSE
      [] v.t = "null" -> FALSE
      [] v.t = "string" -> IF "c" \in DOMAIN v THEN v.c # <<>> ELSE v.s # ""
      [] v.t = "number" -> v.n # 0
      [] OTHER -> TRUE

\* a || b
OrElse(a, b) == IF Truthy(a) THEN a ELSE b

\* o.k of an object value: undefined when the key is absent
Get(o, k) == IF k \in DOMAIN o.f THEN o.f[k] ELSE Undefined

HoursPerDay == 24

----------------------------------------------------------------------------
(* eventSchema *)

EventTypes ==
    { "note_created", "note_updated", "note_deleted", "note_viewed",
      "voice_input_used", "export_note", "share_note", "search_performed",
      "language_changed", "page_view", "user_signup", "user_signin" }

SchemaKeys ==
    << "event_type", "event_data", "user_id", "session_id", "user_agent",
       "ip_address", "location" >>

LocationKeys == << "country", "city", "timezone" >>

\* a string rule that lets the empty string through
JoiStringLax(v) == v.t = "string"

\* Joi.string(): a string, and not the empty one
JoiString(v) == IsString(v) /\ Truthy(v)

\* Joi.string().allow('')
JoiStringAllowEmpty(v) == IsString(v)

\* Joi.object({country, city, timezone}): an object whose keys are among the
\* three and whose present values are strings (possibly empty)
JoiLocation(v) ==
    /\ IsObject(v)
    /\ \A k \in DOMAIN v.f :
          /\ \E i \in 1..Len(LocationKeys) : LocationKeys[i] = k
          /\ v.f[k].t = "undefined" \/ JoiStringAllowEmpty(v.f[k])

\* a schema that checks event_type only for being a string
KeyOkAnyType(k, v) ==
    CASE k = "event_type" -> IsString(v)
      [] v.t = "undefined" -> TRUE
      [] k = "event_data" -> IsObject(v)
      [] k = "location" -> JoiLocation(v)
      [] OTHER -> IsString(v) /\ Truthy(v)

\* the rule of one schema key; a key whose value is undefined is absent
KeyOk(k, v) ==
    CASE k = "event_type" -> IsString(v) /\ "s" \in DOMAIN v /\ v.s \in EventTypes
      [] v.t = "undefined" -> TRUE
      [] k = "event_data" -> IsObject(v)
      [] k = "location" -> JoiLocation(v)
      [] OTHER -> JoiString(v)

\* the keys of the body that break the schema, schema keys first and in the
\* schema's order, then the keys the schema does not know
FailingKeys(body) ==
    LET known == { SchemaKeys[i] : i \in 1..Len(SchemaKeys) }
        bad == SelectSeq(SchemaKeys, LAMBDA k : ~KeyOk(k, Get(body, k)))
        unknown == (DOMAIN body.f) \ known
    IN  IF bad # <<>> THEN bad
        ELSE IF unknown # {} THEN << CHOOSE k \in unknown : TRUE >>
        ELSE <<>>

\* eventSchema.validate(req.body): {error, value}; error names the first
\* failing key, as details[0].message does
eventSchemaValidate(body) ==
    LET failing == FailingKeys(body)
    IN  [ error |-> IF failing = <<>> THEN Undefined ELSE Str(failing[1]),
          value |-> body ]

----------------------------------------------------------------------------
(* responses *)

TABLES == [NOTES |-> "notes", USERS |-> "users"]

\* TABLES.<key>: undefined when the object has no such key
TableName(key) == IF key \in DOMAIN TABLES THEN TABLES[key] ELSE "undefined"

NoResponse ==
    [ status |-> 0, success |-> FALSE, error |-> Undefined, details |-> Undefined,
      message |-> Undefined, warning |-> Undefined, data |-> Undefined,
      period |-> Undefined, user_id |-> Undefined, total_unique_tags |-> Undefined,
      count |-> Undefined ]

\* res.json(body): status 200 unless res.status(code) came first
Json(status, success) == [NoResponse EXCEPT !.status = status, !.success = success]

NoRequest == [op |-> "none"]

----------------------------------------------------------------------------
(* trackEvent *)

\* the record lines 38-48 build from the validated value and the request
eventData(value, ctx, id, session) ==
    [ id |-> id,
      event_type |-> Get(value, "event_type"),
      event_data |-> OrElse(Get(value, "event_data"), Obj(<<>>)),
      user_id |-> OrElse(Get(value, "user_id"), Str("anonymous")),
      session_id |-> OrElse(Get(value, "session_id"), session),
      user_agent |-> OrElse(Get(value, "user_agent"), ctx.userAgent),
      ip_address |-> OrElse(Get(value, "ip_address"), OrElse(ctx.ip, ctx.remoteAddress)),
      location |-> OrElse(Get(value, "location"),
                          Obj([country |-> Str(""), city |-> Str(""), timezone |-> Str("")])),
      created_at |-> now ]

\* a write path that reports the store's fault, as the read paths do
TrackResponseFailing(outcome, row) ==
    IF outcome.kind = "record"
    THEN [Json(200, TRUE) EXCEPT !.data = Obj(row), !.message = Str("Event tracked successfully")]
    ELSE [Json(500, FALSE) EXCEPT !.error = Str("Failed to track event")]

\* the response to a payload that passed validation, by what the insert did
TrackResponse(outcome, row) ==
    CASE outcome.kind = "record" ->
            [Json(200, TRUE) EXCEPT !.data = Obj(row),
                                    !.message = Str("Event tracked successfully")]
      [] outcome.kind = "error" ->
            [Json(200, TRUE) EXCEPT !.message = Str("Event logged (with warnings)"),
                                    !.warning = Str("Analytics data may not have been stored")]
      [] OTHER ->
            [Json(200, TRUE) EXCEPT !.message = Str("Event processing completed"),
                                    !.warning = Str("Analytics tracking may have failed")]

ValidationResponse(error) ==
    [Json(400, FALSE) EXCEPT !.error = Str("Validation failed"), !.details = error]

\* uuidv4(): an identifier no stored row carries
FreshUuid(k) == Uuid(2 * Len(events) + k)

\* a write that replaces the newest row instead of adding one
InsertedInPlace(table, row) ==
    IF table = <<>> THEN <<row>> ELSE [table EXCEPT ![Len(table)] = row]

\* .insert([eventData]): the table with the row added
Inserted(table, row) == Append(table, row)

InsertCall(row) == [op |-> "insert", table |-> TableName("ANALYTICS"), rows |-> <<row>>]

\* POST /track with req.body = body in the request context ctx; outcome is
\* what the store does with the insert: it answers with the record, answers
\* with an error, or the call throws, and a failed call may or may not have
\* stored the row
trackEvent(body, ctx, outcome) ==
    LET v == eventSchemaValidate(body)
        row == eventData(v.value, ctx, FreshUuid(1), FreshUuid(2))
    IN  /\ req' = [op |-> "trackEvent", body |-> body, ctx |-> ctx, outcome |-> outcome]
        /\ IF Truthy(v.error)
           THEN /\ res' = ValidationResponse(v.error)
                /\ calls' = <<>>
                /\ events' = events
           ELSE /\ calls' = <<InsertCall(row)>>
                /\ events' = IF outcome.stored THEN Inserted(events, row) ELSE events
                /\ res' = TrackResponse(outcome, row)
        /\ UNCHANGED <<notes, now, requests>>

InsertOutcomes ==
    { [kind |-> "record", stored |-> TRUE],
      [kind |-> "error", stored |-> FALSE],
      [kind |-> "error", stored |-> TRUE],
      [kind |-> "throw", stored |-> FALSE],
      [kind |-> "throw", stored |-> TRUE] }

----------------------------------------------------------------------------
(* parseInt and the query parameters *)

Digits == << "0", "1", "2", "3", "4", "5", "6", "7", "8", "9" >>

IsDigit(c) == \E i \in 1..Len(Digits) : Digits[i] = c

DigitValue(c) == (CHOOSE i \in 1..Len(Digits) : Digits[i] = c) - 1

RECURSIVE SkipSpaces(_)
SkipSpaces(c) == IF c # <<>> /\ Head(c) = " " THEN SkipSpaces(Tail(c)) ELSE c

\* the longest prefix of c made of digits
RECURSIVE DigitPrefix(_)
DigitPrefix(c) ==
    IF c # <<>> /\ IsDigit(Head(c)) THEN <<Head(c)>> \o DigitPrefix(Tail(c)) ELSE <<>>

RECURSIVE DecimalValue(_)
DecimalValue(d) ==
    IF d = <<>> THEN 0 ELSE 10 * DecimalValue(SubSeq(d, 1, Len(d) - 1)) + DigitValue(d[Len(d)])

NaN == [nan |-> TRUE, n |-> 0]

\* parseInt(v) of a number or of a string of spaces, signs, digits and
\* letters: leading spaces skipped, an optional sign, then the digits up to
\* the first other character; NaN when there is no digit
parseInt(v) ==
    IF v.t = "number" THEN [nan |-> FALSE, n |-> v.n]
    ELSE IF v.t # "string" THEN NaN
    ELSE LET c == SkipSpaces(v.c)
             signed == c # <<>> /\ Head(c) \in {"-", "+"}
             d == DigitPrefix(IF signed THEN Tail(c) ELSE c)
         IN  IF d = <<>> THEN NaN
             ELSE [nan |-> FALSE,
                   n |-> IF signed /\ Head(c) = "-" THEN 0 - DecimalValue(d) ELSE DecimalValue(d)]

\* String(n) of a small non-negative number, as a template literal prints it
RECURSIVE NumberText(_)
NumberText(n) ==
    IF n < 10 THEN <<Digits[n + 1]>> ELSE NumberText(n \div 10) \o <<Digits[(n % 10) + 1]>>

\* `${v}` of a query parameter or of its numeric default
TemplateText(v) == IF v.t = "number" THEN NumberText(v.n) ELSE v.c

\* a scope test that forgets the anonymous sentinel
OwnerFilterNoSentinel(user_id) == Truthy(user_id)

\* user_id && user_id !== 'anonymous'
OwnerFilter(user_id) == Truthy(user_id) /\ user_id # Str("anonymous")

\* user_id || 'all_users'
OwnerEcho(user_id) == OrElse(user_id, Str("all_users"))

----------------------------------------------------------------------------
(* the store's answers to a query *)

\* the positions of S in rows, the greatest key first; rows with equal keys
\* come in the order the store happens to produce (insertion order or its
\* reverse)
RECURSIVE OrderDesc(_, _, _)
OrderDesc(S, key, tie) ==
    IF S = {} THEN <<>>
    ELSE LET first == CHOOSE i \in S : \A j \in S :
                          \/ key[i] > key[j]
                          \/ key[i] = key[j] /\ (IF tie = "insertion" THEN i <= j ELSE i >= j)
         IN  <<first>> \o OrderDesc(S \ {first}, key, tie)

\* the positions of S in table order or in its reverse
RECURSIVE Enumerate(_, _)
Enumerate(S, tie) ==
    IF S = {} THEN <<>>
    ELSE LET first == CHOOSE i \in S : \A j \in S : IF tie = "insertion" THEN i <= j ELSE i >= j
         IN  <<first>> \o Enumerate(S \ {first}, tie)

\* what the handler does with {data, error} or with a thrown fault
QueryOutcomes ==
    { [kind |-> "rows", tie |-> "insertion", message |-> Undefined],
      [kind |-> "rows", tie |-> "reverse", message |-> Undefined],
      [kind |-> "null", tie |-> "insertion", message |-> Undefined],
      [kind |-> "error", tie |-> "insertion", message |-> Str("relation does not exist")],
      [kind |-> "throw", tie |-> "insertion", message |-> Str("fetch failed")] }

Faulted(outcome) == outcome.kind \in {"error", "throw"}

\* a read path that swallows the fault the way the write path does
FaultResponseSwallowed(category, message) ==
    [Json(200, TRUE) EXCEPT !.data = Obj(<<>>), !.warning = Str(category)]

\* res.status(500).json({success: false, error, details: error.message})
FaultResponse(category, message) ==
    [Json(500, FALSE) EXCEPT !.error = Str(category), !.details = message]

----------------------------------------------------------------------------
(* getAnalyticsSummary *)

RecentCap == 10

DefaultDays == 30

\* startDate: the clock moved back parseInt(days) days
StartDate(window) == now - window.n * HoursPerDay

\* the summary query without its order clause: rows in table order
SummaryRowsUnordered(user_id, window, tie) ==
    Enumerate({ i \in 1..Len(events) :
                  /\ events[i].created_at >= StartDate(window)
                  /\ OwnerFilter(user_id) => events[i].user_id = user_id }, "insertion")

\* .gte('created_at', startDate).order('created_at', {ascending: false}), with
\* .eq('user_id', user_id) under the owner test: positions in the table
SummaryRowsSince(user_id, startDate, tie) ==
    LET S == { i \in 1..Len(events) :
                 /\ events[i].created_at >= startDate
                 /\ OwnerFilter(user_id) => events[i].user_id = user_id }
    IN  OrderDesc(S, [i \in S |-> events[i].created_at], tie)

\* the rows the summary query selects, as positions in the table, newest first
SummaryRows(user_id, window, tie) == SummaryRowsSince(user_id, StartDate(window), tie)

\* select('event_type, created_at, event_data')
SummaryColumns(row) ==
    [event_type |-> row.event_type, created_at |-> row.created_at, event_data |-> row.event_data]

\* new Date(created_at).toDateString(): the calendar day
DateString(t) == t \div HoursPerDay

EventTypeOf(row) == row.event_type.s
EventDateOf(row) == DateString(row.created_at)

\* a forEach that assigns 1 where it should add 1
CountByTypeAssigned(data, k) == 1

\* what the forEach leaves in events_by_type[k]: one for each row of type k
CountByType(data, k) == Cardinality({ i \in 1..Len(data) : EventTypeOf(data[i]) = k })

\* what the forEach leaves in daily_activity[k]: one for each row of day k
CountByDate(data, k) == Cardinality({ i \in 1..Len(data) : EventDateOf(data[i]) = k })

\* lines 107-121 over the rows the query returned
Summary(data) ==
    [ total_events |-> Len(data),
      events_by_type |->
          [k \in { EventTypeOf(data[i]) : i \in 1..Len(data) } |-> CountByType(data, k)],
      daily_activity |->
          [k \in { EventDateOf(data[i]) : i \in 1..Len(data) } |-> CountByDate(data, k)],
      recent_events |-> SubSeq(data, 1, IF Len(data) < RecentCap THEN Len(data) ELSE RecentCap) ]

SummaryCall(user_id, window) ==
    [ op |-> "select", table |-> TableName("ANALYTICS"),
      rows |-> << [gte |-> StartDate(window), owner |-> IF OwnerFilter(user_id) THEN user_id ELSE Undefined] >> ]

SummaryResponse(user_id, days, data) ==
    [ Json(200, TRUE) EXCEPT !.data = Obj(Summary(data)),
                             !.period = Txt(TemplateText(days) \o <<" ", "d", "a", "y", "s">>),
                             !.user_id = OwnerEcho(user_id) ]

\* GET /summary?user_id=..&days=..; outcome is the store's answer to the query
getAnalyticsSummary(user_id, daysParam, outcome) ==
    LET days == IF daysParam.t = "undefined" THEN Num(DefaultDays) ELSE daysParam
        window == parseInt(days)
        positions == SummaryRows(user_id, window, outcome.tie)
        data == IF outcome.kind = "null" THEN <<>>
                ELSE [i \in 1..Len(positions) |-> SummaryColumns(events[positions[i]])]
    IN  /\ req' = [op |-> "getAnalyticsSummary", user_id |-> user_id, days |-> daysParam,
                   outcome |-> outcome]
        /\ IF window.nan
           THEN \* startDate is an Invalid Date and toISOString() throws
                /\ calls' = <<>>
                /\ res' = FaultResponse("Failed to fetch analytics summary", Str("Invalid time value"))
           ELSE /\ calls' = <<SummaryCall(user_id, window)>>
                /\ res' = IF Faulted(outcome)
                          THEN FaultResponse("Failed to fetch analytics summary", outcome.message)
                          ELSE SummaryResponse(user_id, days, data)
        /\ UNCHANGED <<events, notes, now, requests>>

----------------------------------------------------------------------------
(* plain objects used as counters: const o = {}; o[k] = (o[k] || 0) + 1 *)

\* an object's own properties are a sequence of <<key, value>> in insertion
\* order; keys are strings given as character sequences

W_constructor == << "c", "o", "n", "s", "t", "r", "u", "c", "t", "o", "r" >>
W_proto == << "_", "_", "p", "r", "o", "t", "o", "_", "_" >>
W_toString == << "t", "o", "S", "t", "r", "i", "n", "g" >>
W_valueOf == << "v", "a", "l", "u", "e", "O", "f" >>
W_hasOwnProperty ==
    << "h", "a", "s", "O", "w", "n", "P", "r", "o", "p", "e", "r", "t", "y" >>
W_plain == << "p", "l", "a", "i", "n" >>

\* property names every {} inherits from Object.prototype
ObjectPrototypeKeys == { W_constructor, W_proto, W_toString, W_valueOf, W_hasOwnProperty }

OwnKeys(o) == { o[i][1] : i \in 1..Len(o) }

\* o[k]: the own property, else the inherited member, else undefined
GetProp(o, k) ==
    IF k \in OwnKeys(o) THEN o[CHOOSE i \in 1..Len(o) : o[i][1] = k][2]
    ELSE IF k = W_proto THEN [t |-> "object", s |-> "[object Object]"]
    ELSE IF k \in ObjectPrototypeKeys THEN [t |-> "function", s |-> "function () { [native code] }", of |-> k]
    ELSE Undefined

\* o[k] = v: assigning a primitive to __proto__ is ignored
SetProp(o, k, v) ==
    IF k = W_proto THEN o
    ELSE IF k \in OwnKeys(o) THEN [i \in 1..Len(o) |-> IF o[i][1] = k THEN <<k, v>> ELSE o[i]]
    ELSE Append(o, <<k, v>>)

\* v + 1: addition on a number, concatenation with "1" on anything else
PlusOne(v) ==
    IF v.t = "number" THEN Num(v.n + 1)
    ELSE [ t |-> "string", s |-> v.s,
           tail |-> (IF "tail" \in DOMAIN v THEN v.tail ELSE <<>>) \o <<"1">> ]

\* o[k] = (o[k] || 0) + 1
Increment(o, k) == SetProp(o, k, PlusOne(OrElse(GetProp(o, k), Num(0))))

\* a key that is a canonical array index: Object.entries lists these first
IsIndexKey(k) ==
    /\ k # <<>>
    /\ \A i \in 1..Len(k) : IsDigit(k[i])
    /\ Len(k) = 1 \/ k[1] # "0"

\* positions of S by ascending key
RECURSIVE OrderAsc(_, _)
OrderAsc(S, key) ==
    IF S = {} THEN <<>>
    ELSE LET first == CHOOSE i \in S : \A j \in S : key[i] <= key[j]
         IN  <<first>> \o OrderAsc(S \ {first}, key)

\* Object.entries(o): index keys in ascending numeric order, then the other
\* keys in insertion order
Entries(o) ==
    LET idx == { i \in 1..Len(o) : IsIndexKey(o[i][1]) }
        byValue == OrderAsc(idx, [i \in idx |-> DecimalValue(o[i][1])])
        rest == SelectSeq(o, LAMBDA p : ~IsIndexKey(p[1]))
    IN  [i \in 1..Len(byValue) |-> o[byValue[i]]] \o rest

----------------------------------------------------------------------------
(* getPopularTags *)

DefaultLimit == 10

UpperCase ==
    << "A", "B", "C", "D", "E", "F", "G", "H", "I", "J", "K", "L", "M",
       "N", "O", "P", "Q", "R", "S", "T", "U", "V", "W", "X", "Y", "Z" >>
LowerCase ==
    << "a", "b", "c", "d", "e", "f", "g", "h", "i", "j", "k", "l", "m",
       "n", "o", "p", "q", "r", "s", "t", "u", "v", "w", "x", "y", "z" >>

toLowerCase(c) ==
    [i \in 1..Len(c) |->
        IF \E j \in 1..Len(UpperCase) : UpperCase[j] = c[i]
        THEN LowerCase[CHOOSE j \in 1..Len(UpperCase) : UpperCase[j] = c[i]]
        ELSE c[i]]

WhiteSpace == { " ", "\t", "\n" }

RECURSIVE trimStart(_)
trimStart(c) == IF c # <<>> /\ Head(c) \in WhiteSpace THEN trimStart(Tail(c)) ELSE c

RECURSIVE trimEnd(_)
trimEnd(c) ==
    IF c # <<>> /\ c[Len(c)] \in WhiteSpace THEN trimEnd(SubSeq(c, 1, Len(c) - 1)) ELSE c

trim(c) == trimEnd(trimStart(c))

\* c.split(','): the pieces between the commas, empty pieces included
RECURSIVE split(_)
split(c) ==
    IF \A i \in 1..Len(c) : c[i] # ","
    THEN <<c>>
    ELSE LET i == CHOOSE i \in 1..Len(c) : c[i] = "," /\ \A j \in 1..(i - 1) : c[j] # ","
         IN  <<SubSeq(c, 1, i - 1)>> \o split(SubSeq(c, i + 1, Len(c)))

\* note.tags.split(',').map(tag => tag.trim().toLowerCase())
NoteTags(tags) == LET pieces == split(tags) IN [i \in 1..Len(pieces) |-> toLowerCase(trim(pieces[i]))]

\* tags.forEach(tag => { if (tag) tagCounts[tag] = (tagCounts[tag] || 0) + 1 })
RECURSIVE CountTags(_, _)
CountTags(tags, tagCounts) ==
    IF tags = <<>> THEN tagCounts
    ELSE CountTags(Tail(tags),
                   IF Head(tags) # <<>> THEN Increment(tagCounts, Head(tags)) ELSE tagCounts)

\* data?.forEach(note => { if (note.tags) ... })
RECURSIVE TagCounts(_, _)
TagCounts(data, tagCounts) ==
    IF data = <<>> THEN tagCounts
    ELSE TagCounts(Tail(data),
                   IF Truthy(Head(data).tags)
                   THEN CountTags(NoteTags(Head(data).tags.c), tagCounts)
                   ELSE tagCounts)

\* the rows the tags query selects: tags neither null nor '', scoped by owner
TagRows(user_id, tie) ==
    Enumerate({ i \in 1..Len(notes) :
                  /\ notes[i].tags # Null
                  /\ notes[i].tags # Txt(<<>>)
                  /\ OwnerFilter(user_id) => notes[i].user_id = user_id }, tie)

Injections(n) == { p \in [1..n -> 1..n] : \A i, j \in 1..n : p[i] = p[j] => i = j }

\* entries.sort(([,a], [,b]) => b - a): stable, by count descending; when a
\* count is not a number b - a is NaN and the comparator is inconsistent, so
\* the order is whatever the engine produces
SortByCount(entries) ==
    LET n == Len(entries)
    IN  IF \A i \in 1..n : entries[i][2].t = "number"
        THEN LET order == OrderDesc(1..n, [i \in 1..n |-> entries[i][2].n], "insertion")
             IN  { [i \in 1..n |-> entries[order[i]]] }
        ELSE { [i \in 1..n |-> entries[p[i]]] : p \in Injections(n) }

\* a.slice(0, end) for end = parseInt(..)
SliceTo(a, end) ==
    LET n == Len(a)
        k == IF end.nan THEN 0
             ELSE IF end.n < 0 THEN (IF n + end.n < 0 THEN 0 ELSE n + end.n)
             ELSE IF end.n > n THEN n ELSE end.n
    IN  SubSeq(a, 1, k)

TagsCall(user_id) ==
    [ op |-> "select", table |-> TableName("NOTES"),
      rows |-> << [owner |-> IF OwnerFilter(user_id) THEN user_id ELSE Undefined] >> ]

TagsResponse(sorted, limit, tagCounts) ==
    LET top == SliceTo(sorted, parseInt(limit))
    IN  [ Json(200, TRUE) EXCEPT
            !.data = [t |-> "array",
                      a |-> [i \in 1..Len(top) |-> [tag |-> top[i][1], count |-> top[i][2]]]],
            !.total_unique_tags = Num(Len(tagCounts)) ]

\* GET /tags?user_id=..&limit=..
getPopularTags(user_id, limitParam, outcome) ==
    LET limit == IF limitParam.t = "undefined" THEN Num(DefaultLimit) ELSE limitParam
        positions == TagRows(user_id, outcome.tie)
        data == IF outcome.kind = "null" THEN <<>>
                ELSE [i \in 1..Len(positions) |-> [tags |-> notes[positions[i]].tags]]
        tagCounts == TagCounts(data, <<>>)
    IN  /\ req' = [op |-> "getPopularTags", user_id |-> user_id, limit |-> limitParam,
                   outcome |-> outcome]
        /\ calls' = <<TagsCall(user_id)>>
        /\ IF Faulted(outcome)
           THEN res' = FaultResponse("Failed to fetch popular tags", outcome.message)
           ELSE \E sorted \in SortByCount(Entries(tagCounts)) :
                    res' = TagsResponse(sorted, limit, tagCounts)
        /\ UNCHANGED <<events, notes, now, requests>>

----------------------------------------------------------------------------
(* getUsageStats *)

WeekHours == 7 * 24
MonthHours == 30 * 24

\* the rows the stats query selects
StatsRows(user_id, tie) ==
    Enumerate({ i \in 1..Len(notes) : OwnerFilter(user_id) => notes[i].user_id = user_id }, tie)

\* const language = note.language || 'plain', counted in languages_used
RECURSIVE LanguagesUsed(_, _)
LanguagesUsed(rows, used) ==
    IF rows = <<>> THEN used
    ELSE LanguagesUsed(Tail(rows), Increment(used, OrElse(Head(rows).language, Txt(W_plain)).c))

\* createdAt.getHours()
HourOf(t) == t % HoursPerDay

\* lines 215-241 over the rows the query returned
Stats(rows) ==
    [ total_notes |-> Len(rows),
      notes_this_week |->
          Cardinality({ i \in 1..Len(rows) : rows[i].created_at >= now - WeekHours }),
      notes_this_month |->
          Cardinality({ i \in 1..Len(rows) : rows[i].created_at >= now - MonthHours }),
      languages_used |-> LanguagesUsed(rows, <<>>),
      creation_pattern |->
          [h \in { HourOf(rows[i].created_at) : i \in 1..Len(rows) } |->
              Cardinality({ i \in 1..Len(rows) : HourOf(rows[i].created_at) = h })] ]

StatsCall(user_id) ==
    [ op |-> "select", table |-> TableName("NOTES"),
      rows |-> << [owner |-> IF OwnerFilter(user_id) THEN user_id ELSE Undefined] >> ]

StatsColumns(row) ==
    [id |-> row.id, created_at |-> row.created_at, language |-> row.language, tags |-> row.tags]

\* GET /stats?user_id=..
getUsageStats(user_id, outcome) ==
    LET positions == StatsRows(user_id, outcome.tie)
        rows == IF outcome.kind = "null" THEN <<>>
                ELSE [i \in 1..Len(positions) |-> StatsColumns(notes[positions[i]])]
    IN  /\ req' = [op |-> "getUsageStats", user_id |-> user_id, outcome |-> outcome]
        /\ calls' = <<StatsCall(user_id)>>
        /\ res' = IF Faulted(outcome)
                  THEN FaultResponse("Failed to fetch usage statistics", outcome.message)
                  ELSE [Json(200, TRUE) EXCEPT !.data = Obj(Stats(rows)),
                                               !.user_id = OwnerEcho(user_id)]
        /\ UNCHANGED <<events, notes, now, requests>>

----------------------------------------------------------------------------
(* the clock and the life of a request *)

\* time passes between requests
Tick(d) ==
    /\ now' = now + d
    /\ UNCHANGED <<events, notes, req, calls, res, requests>>

\* the handler has returned and its response is sent: the request is over
\* and leaves nothing behind in the process
endRequest ==
    /\ req # [op |-> "none"]
    /\ req' = NoRequest
    /\ calls' = <<>>
    /\ res' = NoResponse
    /\ UNCHANGED <<events, notes, now, requests>>

Idle == req = NoRequest

----------------------------------------------------------------------------
(* requests *)

MaxEvents == 2
MaxDays == 30

Jumps == { 10 * HoursPerDay, 30 * HoursPerDay }

FullContext ==
    [userAgent |-> Str("Mozilla"), ip |-> Str("10.0.0.1"), remoteAddress |-> Str("10.0.0.1")]

\* no User-Agent header; req.ip is undefined, the socket still has an address
NoAgentContext ==
    [userAgent |-> Undefined, ip |-> Undefined, remoteAddress |-> Str("10.0.0.2")]

\* the socket is gone: neither req.ip nor remoteAddress
NoAddressContext ==
    [userAgent |-> Str("curl"), ip |-> Undefined, remoteAddress |-> Undefined]

MinimalBody == Obj([event_type |-> Str("page_view")])

FullBody ==
    Obj([event_type |-> Str("note_created"), user_id |-> Str("u1"),
         session_id |-> Str("s1"), user_agent |-> Str("app"),
         ip_address |-> Str("192.0.2.1"), event_data |-> Obj([k |-> Num(1)]),
         location |-> Obj([country |-> Str("US"), city |-> Str(""), timezone |-> Str("UTC")])])

Bodies ==
    { MinimalBody, FullBody, Obj(<<>>), Obj([event_type |-> Str("bogus")]) }

Note(id, user, tags, language, created) ==
    [id |-> id, user_id |-> Str(user), tags |-> tags, language |-> language, created_at |-> created]

NoteCandidates ==
    << Note(1, "u1", Txt(<<"G", "o", ",", " ", "g", "o", ",", " ", "r", "u", "s", "t">>),
            Txt(<<"j", "s">>), 0 - 1 * HoursPerDay + 14),
       Note(2, "u2", Txt(<<"r", "u", "s", "t">>), Null, 0 - 10 * HoursPerDay),
       Note(3, "u1", Null, Txt(<<>>), 0 - 40 * HoursPerDay + 9) >>

Quiet ==
    /\ events = <<>>
    /\ now = 0
    /\ req = NoRequest
    /\ calls = <<>>
    /\ res = NoResponse
    /\ requests = <<>>

Init == Quiet /\ notes \in { <<>>, NoteCandidates }

Next ==
    \/ \E body \in Bodies, ctx \in {FullContext, NoAgentContext}, outcome \in InsertOutcomes :
          Idle /\ Len(events) < MaxEvents /\ trackEvent(body, ctx, outcome)
    \/ \E user_id \in {Undefined, Str("u1")}, days \in {Undefined, Txt(<<"a">>)},
          outcome \in QueryOutcomes :
          Idle /\ getAnalyticsSummary(user_id, days, outcome)
    \/ \E user_id \in {Undefined, Str("u1")}, limit \in {Undefined, Txt(<<"1">>)},
          outcome \in QueryOutcomes :
          Idle /\ getPopularTags(user_id, limit, outcome)
    \/ \E user_id \in {Undefined, Str("u1")}, outcome \in QueryOutcomes :
          Idle /\ getUsageStats(user_id, outcome)
    \/ \E d \in Jumps : Idle /\ now + d <= MaxDays * HoursPerDay /\ Tick(d)
    \/ endRequest

Spec == Init /\ [][Next]_vars

----------------------------------------------------------------------------
(* ingestion under every kind of payload and request context *)

MaxIngestEvents == 2

PageView(f) == Obj([event_type |-> Str("page_view")] @@ f)

ValidBodies ==
    { MinimalBody, FullBody,
      PageView([location |-> Obj(<<>>)]),
      Obj([event_type |-> Str("user_signin"), user_id |-> Str("u2"), event_data |-> Obj(<<>>)]) }

BadTypeBodies ==
    { Obj(<<>>),
      Obj([event_type |-> Str("bogus")]),
      Obj([event_type |-> Str("PAGE_VIEW")]),
      Obj([event_type |-> Str("")]),
      Obj([event_type |-> Num(7)]),
      Obj([event_type |-> Null, user_id |-> Str("u1")]) }

BadFieldBodies ==
    { PageView([user_id |-> Str("")]),
      PageView([user_id |-> Num(7)]),
      PageView([session_id |-> Null]),
      PageView([event_data |-> Str("x")]),
      PageView([referrer |-> Str("https://example.org")]),
      PageView([location |-> Obj([country |-> Str("US"), region |-> Str("CA")])]),
      PageView([location |-> Obj([country |-> Num(1)])]) }

NextIngest ==
    \/ \E body \in ValidBodies \cup BadTypeBodies \cup BadFieldBodies,
          ctx \in {FullContext, NoAgentContext, NoAddressContext},
          outcome \in InsertOutcomes :
          Idle /\ Len(events) < MaxIngestEvents /\ trackEvent(body, ctx, outcome)
    \/ endRequest

InitIngest == Quiet /\ notes = <<>>

SpecIngest == InitIngest /\ [][NextIngest]_vars

\* what the request at hand is
Tracked == req.op = "trackEvent"

PassesValidation(body) == ~Truthy(eventSchemaValidate(body).error)

\* the payload's event_type is one of the twelve enumerated strings
EnumeratedType(body) ==
    /\ "event_type" \in DOMAIN body.f
    /\ body.f["event_type"].t = "string"
    /\ "s" \in DOMAIN body.f["event_type"]
    /\ body.f["event_type"].s \in EventTypes

ClientError(r) == r.status >= 400 /\ r.status <= 499 /\ ~r.success

\* C1: a trackEvent request whose payload passes validation is answered with
\* status 200 and success:true, whether the insert returns a record, returns
\* an error or throws.
C1_WriteFaultNeverSurfaces ==
    (Tracked /\ PassesValidation(req.body)) => (res.status = 200 /\ res.success)

\* a valid payload whose insert threw, answered with success and a warning
C1_Witness ==
    /\ Tracked /\ PassesValidation(req.body)
    /\ req.outcome.kind = "throw"
    /\ res.success /\ Truthy(res.warning)

\* C2: a trackEvent request whose event_type is missing or not enumerated is
\* rejected with a client-error status and success:false, issues no storage
\* call, and leaves the stored events as they were.
C2_BadTypeRejectedNothingWritten ==
    [][ (Idle /\ req'.op = "trackEvent" /\ ~EnumeratedType(req'.body))
            => (ClientError(res') /\ calls' = <<>> /\ events' = events) ]_vars

\* a payload with an unknown event_type was rejected while events are stored
C2_Witness ==
    /\ Tracked /\ ~EnumeratedType(req.body) /\ "event_type" \in DOMAIN req.body.f
    /\ res.status = 400 /\ calls = <<>> /\ Len(events) > 0

\* the other fields of the payload, where present, fit the schema: event_data
\* an object; user_id, session_id, user_agent and ip_address non-empty
\* strings; location an object of string country, city, timezone; nothing else
OtherFieldsFit(body) ==
    LET f == body.f
        text(k) == k \in DOMAIN f => (f[k].t = "string" /\ f[k] # Str(""))
    IN  /\ DOMAIN f \subseteq { "event_type", "event_data", "user_id", "session_id",
                                "user_agent", "ip_address", "location" }
        /\ "event_data" \in DOMAIN f => f["event_data"].t = "object"
        /\ text("user_id") /\ text("session_id") /\ text("user_agent") /\ text("ip_address")
        /\ "location" \in DOMAIN f =>
              /\ f["location"].t = "object"
              /\ DOMAIN f["location"].f \subseteq {"country", "city", "timezone"}
              /\ \A k \in DOMAIN f["location"].f : f["location"].f[k].t = "string"

\* C3 as stated: every payload whose event_type is enumerated is accepted
\* with success:true, whatever its other fields are.
C3_AsStated == (Tracked /\ EnumeratedType(req.body)) => res.success

\* C3, amended: a payload whose event_type is enumerated is accepted with
\* success:true when its other fields fit the schema, and is rejected with the
\* validation error when one of them does not.
C3_OnlySchemaFailuresSurface ==
    (Tracked /\ EnumeratedType(req.body)) =>
        IF OtherFieldsFit(req.body)
        THEN res.status = 200 /\ res.success
        ELSE ClientError(res) /\ res.error = Str("Validation failed") /\ calls = <<>>

\* an enumerated event_type with an empty user_id, rejected
C3_Witness ==
    /\ Tracked /\ EnumeratedType(req.body) /\ ~OtherFieldsFit(req.body)
    /\ Get(req.body, "user_id") = Str("")
    /\ res.status = 400

EventFields ==
    { "id", "event_type", "event_data", "user_id", "session_id", "user_agent",
      "ip_address", "location", "created_at" }

Defined(v) == v # Undefined /\ v # Null

DefaultLocation == Obj([country |-> Str(""), city |-> Str(""), timezone |-> Str("")])

\* C4: every stored event has its event_type in the closed set and every
\* other field defined; one submitted without user_id is stored as
\* "anonymous", one without location with the empty location triple; in
\* every request context.
C4_StoredEventsComplete ==
    /\ \A i \in 1..Len(events) :
          /\ DOMAIN events[i] = EventFields
          /\ events[i].event_type.s \in EventTypes
          /\ \A k \in EventFields \ {"created_at"} : Defined(events[i][k])
    /\ (Tracked /\ PassesValidation(req.body) /\ req.outcome.stored) =>
          LET e == events[Len(events)]
          IN  /\ "user_id" \notin DOMAIN req.body.f => e.user_id = Str("anonymous")
              /\ "location" \notin DOMAIN req.body.f => e.location = DefaultLocation

----------------------------------------------------------------------------
(* the summary over stores of several owners and ages *)

MaxSummaryEvents == 3
MaxSummaryDays == 40

SummaryOwners == { Undefined, Str(""), Str("anonymous"), Str("u1"), Str("u2") }

DaysParams ==
    { Undefined, Txt(<<"1", "0">>), Txt(<<"0">>), Txt(<<"7", "d">>), Txt(<<"a">>),
      Txt(<<"-", "1", "0">>) }

NextSummary ==
    \/ \E body \in {MinimalBody, FullBody},
          outcome \in { [kind |-> "record", stored |-> TRUE], [kind |-> "error", stored |-> FALSE] } :
          Idle /\ Len(events) < MaxSummaryEvents /\ trackEvent(body, FullContext, outcome)
    \/ \E user_id \in SummaryOwners, days \in DaysParams, outcome \in QueryOutcomes :
          Idle /\ getAnalyticsSummary(user_id, days, outcome)
    \/ \E d \in Jumps : Idle /\ now + d <= MaxSummaryDays * HoursPerDay /\ Tick(d)
    \/ endRequest

InitSummary == Quiet /\ notes = <<>>

SpecSummary == InitSummary /\ [][NextSummary]_vars

Summarized == req.op = "getAnalyticsSummary"

\* the parameter is a decimal numeral
IsNumeral(v) == v.t = "string" /\ v.c # <<>> /\ \A i \in 1..Len(v.c) : IsDigit(v.c[i])

\* the number of days a request asks for: 30 when omitted
DaysAsked(v) == IF v = Undefined THEN 30 ELSE DecimalValue(v.c)

\* an owner is given: the parameter is present and not empty
OwnerGiven(v) == v # Undefined /\ v # Str("")

\* the stored events the claim counts for a request: inside the window, and
\* of the owner when one is given and is not "anonymous"
EventsInScope(user_id, days) ==
    { i \in 1..Len(events) :
        /\ events[i].created_at >= now - days * 24
        /\ (OwnerGiven(user_id) /\ user_id # Str("anonymous")) => events[i].user_id = user_id }

\* C5: for a day count (30 when omitted) and an owner parameter,
\* getAnalyticsSummary answers the store's rows with success and
\* total_events = the number of stored events with created_at >= now - days,
\* of that owner when one is given and is not "anonymous", of all owners when
\* the owner is absent, empty or "anonymous".
C5_TotalEventsWindowedAndScoped ==
    (Summarized /\ req.outcome.kind = "rows" /\ (req.days = Undefined \/ IsNumeral(req.days)))
        => /\ res.status = 200 /\ res.success
           /\ res.data.f.total_events =
                 Cardinality(EventsInScope(req.user_id, DaysAsked(req.days)))

\* events at day offsets -40, -10 and 0, days omitted, no owner: 2 are counted
C5_Witness ==
    /\ Summarized /\ req.outcome.kind = "rows" /\ req.days = Undefined /\ req.user_id = Undefined
    /\ Len(events) = 3
    /\ events[1].created_at = now - 40 * 24
    /\ events[2].created_at = now - 10 * 24
    /\ events[3].created_at = now
    /\ res.data.f.total_events = 2

----------------------------------------------------------------------------
(* the summary over more events than recent_events holds *)

MaxRecentEvents == 11
MaxRecentDays == 20

NextRecent ==
    \/ Idle /\ Len(events) < MaxRecentEvents
          /\ trackEvent(MinimalBody, FullContext, [kind |-> "record", stored |-> TRUE])
    \/ \E days \in { Undefined, Txt(<<"1", "0">>) }, outcome \in QueryOutcomes :
          Idle /\ getAnalyticsSummary(Undefined, days, outcome)
    \/ Idle /\ now + 10 * HoursPerDay <= MaxRecentDays * HoursPerDay /\ Tick(10 * HoursPerDay)
    \/ endRequest

InitRecent == Quiet /\ notes = <<>>

SpecRecent == InitRecent /\ [][NextRecent]_vars

Min(a, b) == IF a < b THEN a ELSE b

\* C6: recent_events has exactly min(10, total_events) entries, ordered by
\* created_at descending, and they are the most recently created events of
\* the filtered set: each is one of its events, and as many of them are as
\* new as any instant t as the filtered set allows.
C6_RecentEventsNewestTen ==
    (Summarized /\ res.success) =>
        LET recent == res.data.f.recent_events
            scope == EventsInScope(req.user_id, DaysAsked(req.days))
            atLeast(t) == Cardinality({ i \in 1..Len(recent) : recent[i].created_at >= t })
            stored(t) == Cardinality({ i \in scope : events[i].created_at >= t })
        IN  /\ Len(recent) = Min(10, res.data.f.total_events)
            /\ \A i \in 1..(Len(recent) - 1) : recent[i].created_at >= recent[i + 1].created_at
            /\ req.outcome.kind = "rows" =>
                  /\ \A i \in 1..Len(recent) : \E j \in scope :
                        /\ recent[i].created_at = events[j].created_at
                        /\ recent[i].event_type = events[j].event_type
                        /\ recent[i].event_data = events[j].event_data
                  /\ \A j \in scope : atLeast(events[j].created_at)
                                        = Min(Len(recent), stored(events[j].created_at))

\* eleven events in the window, ten of them returned, the oldest left out
C6_Witness ==
    /\ Summarized /\ res.success
    /\ res.data.f.total_events = 11
    /\ Len(res.data.f.recent_events) = 10
    /\ events[1].created_at < res.data.f.recent_events[10].created_at

----------------------------------------------------------------------------
(* the note aggregations over tables of notes *)

MaxNotes == 3
MaxNotesDays == 30

\* rows of the notes table: tags and language are any strings the note
\* schemas admit ('' included), or null in a row written past the API
NotePool ==
    << Note(1, "u1", Txt(<<"G", "o", ",", " ", "g", "o", ",", " ", "r", "u", "s", "t">>),
            Txt(<<"j", "s">>), 0 - 1 * HoursPerDay + 14),
       Note(2, "u2", Txt(<<"r", "u", "s", "t">>), Null, 0 - 10 * HoursPerDay),
       Note(3, "u1", Null, Txt(<<>>), 0 - 40 * HoursPerDay + 9),
       Note(4, "u2", Txt(W_constructor), Txt(W_constructor), 0 - 5 * HoursPerDay),
       Note(5, "u1", Txt(<<" ", ",", "a", ",", ",", "7", " ">>), Txt(<<"j", "s">>), 0),
       Note(6, "u2", Txt(<<>>), Txt(W_plain), 0 - 8 * HoursPerDay + 23) >>

\* the rows of the pool at the positions of S, in pool order
PoolTable(S) == LET order == Enumerate(S, "insertion") IN [i \in 1..Len(order) |-> NotePool[order[i]]]

NoteTables == { PoolTable(S) : S \in { T \in SUBSET (1..Len(NotePool)) : Cardinality(T) <= MaxNotes } }

TagOwners == { Undefined, Str("anonymous"), Str("u1"), Str("u2") }

LimitParams ==
    { Undefined, Txt(<<"0">>), Txt(<<"1">>), Txt(<<"2">>), Txt(<<"-", "1">>), Txt(<<"x">>) }

NextNotes ==
    \/ \E user_id \in TagOwners, limit \in LimitParams, outcome \in QueryOutcomes :
          Idle /\ getPopularTags(user_id, limit, outcome)
    \/ \E user_id \in TagOwners, outcome \in QueryOutcomes :
          Idle /\ getUsageStats(user_id, outcome)
    \/ \E d \in Jumps : Idle /\ now + d <= MaxNotesDays * HoursPerDay /\ Tick(d)
    \/ endRequest

InitNotes == Quiet /\ notes \in NoteTables

SpecNotes == InitNotes /\ [][NextNotes]_vars

\* the notes a request's scope covers: all, or the owner's when one is given
\* and is not "anonymous"
NotesInScope(user_id) ==
    { i \in 1..Len(notes) :
        (OwnerGiven(user_id) /\ user_id # Str("anonymous")) => notes[i].user_id = user_id }

\* the appearances of tags in the notes in scope: <<note, piece>> for each
\* non-empty comma-separated piece, trimmed and lower-cased
TagAppearances(user_id) ==
    UNION { { <<i, j>> : j \in { k \in 1..Len(NoteTags(notes[i].tags.c)) :
                                     NoteTags(notes[i].tags.c)[k] # <<>> } } :
            i \in { n \in NotesInScope(user_id) : Truthy(notes[n].tags) } }

TagAt(a) == NoteTags(notes[a[1]].tags.c)[a[2]]

\* C7 as stated, for a limit that is a count (10 when omitted): each tag is
\* counted once per appearance after trimming and lower-casing; the answer is
\* min(limit, distinct tags) entries {tag, count}, sorted by count descending,
\* none left out having a greater count than one returned; total_unique_tags
\* is the number of distinct tags.
C7_AsStated ==
    (req.op = "getPopularTags" /\ req.outcome.kind = "rows"
        /\ (req.limit = Undefined \/ IsNumeral(req.limit))) =>
        LET limit == IF req.limit = Undefined THEN 10 ELSE DecimalValue(req.limit.c)
            apps == TagAppearances(req.user_id)
            distinct == { TagAt(a) : a \in apps }
            count(tag) == Cardinality({ a \in apps : TagAt(a) = tag })
            data == res.data.a
            counted == \A i \in 1..Len(data) :
                          /\ data[i].tag \in distinct
                          /\ data[i].count = Num(count(data[i].tag))
        IN  /\ res.status = 200 /\ res.success
            /\ Len(data) = Min(limit, Cardinality(distinct))
            /\ counted
            /\ \A i, j \in 1..Len(data) : i # j => data[i].tag # data[j].tag
            /\ \A i \in 1..(Len(data) - 1) : data[i].count.n >= data[i + 1].count.n
            /\ \A tag \in distinct \ { data[i].tag : i \in 1..Len(data) } :
                  \A i \in 1..Len(data) : count(tag) <= data[i].count.n
            /\ res.total_unique_tags = Num(Cardinality(distinct))

\* the language a note counts under
LanguageOf(note) ==
    IF note.language \in { Null, Undefined, Txt(<<>>) } THEN W_plain ELSE note.language.c

\* C8 as stated: total_notes is the number of notes in scope, notes_this_week
\* and notes_this_month those created in the last 7 and 30 days,
\* languages_used counts each note under its language, "plain" when missing;
\* an empty or null note set gives success with zeros and empty mappings.
C8_AsStated ==
    (req.op = "getUsageStats" /\ req.outcome.kind \in {"rows", "null"}) =>
        LET scope == IF req.outcome.kind = "null" THEN {} ELSE NotesInScope(req.user_id)
            stats == res.data.f
            languages == { LanguageOf(notes[i]) : i \in scope }
        IN  /\ res.status = 200 /\ res.success
            /\ stats.total_notes = Cardinality(scope)
            /\ stats.notes_this_week =
                  Cardinality({ i \in scope : notes[i].created_at >= now - 7 * 24 })
            /\ stats.notes_this_month =
                  Cardinality({ i \in scope : notes[i].created_at >= now - 30 * 24 })
            /\ OwnKeys(stats.languages_used) = languages
            /\ \A l \in languages :
                  GetProp(stats.languages_used, l)
                     = Num(Cardinality({ i \in scope : LanguageOf(notes[i]) = l }))
            /\ scope = {} => (stats.languages_used = <<>> /\ stats.creation_pattern = <<>>)

----------------------------------------------------------------------------
(* read faults and the frame of every request *)

Aggregations == { "getAnalyticsSummary", "getPopularTags", "getUsageStats" }

\* C9: when the storage query of an aggregation endpoint answers with an
\* error or throws, the response is status 500, success:false, with an error
\* category and the fault's message as details, carries no aggregate, and the
\* query was issued once.
C9_ReadFaultIsServerError ==
    (req.op \in Aggregations /\ calls # <<>> /\ req.outcome.kind \in {"error", "throw"}) =>
        /\ res.status = 500 /\ ~res.success
        /\ res.error.t = "string" /\ res.error # Str("")
        /\ res.details = req.outcome.message /\ res.details.t = "string"
        /\ res.data = Undefined /\ res.total_unique_tags = Undefined
        /\ Len(calls) = 1 /\ calls[1].op = "select"

\* the stats query threw over a table that holds notes
C9_Witness ==
    /\ req.op = "getUsageStats" /\ req.outcome.kind = "throw"
    /\ notes # <<>>
    /\ res.status = 500 /\ res.details = Str("fetch failed")

\* C10: a trackEvent request adds at most one event after the stored ones
\* and changes none of them; the three aggregation requests leave the events
\* and the notes as they are; no request changes the notes.
C10_AppendOnlyAndReadOnly ==
    [][ /\ notes' = notes
        /\ Len(events') >= Len(events) /\ Len(events') <= Len(events) + 1
        /\ SubSeq(events', 1, Len(events)) = events
        /\ events' # events => (Idle /\ req'.op = "trackEvent")
        /\ (Idle /\ req'.op \in Aggregations) =>
              (events' = events /\ \A i \in 1..Len(calls') : calls'[i].op = "select")
      ]_vars

\* a second event was stored behind the first
C10_Witness ==
    /\ Tracked /\ req.outcome.stored /\ PassesValidation(req.body)
    /\ Len(events) = 2 /\ events[1].id # events[2].id

----------------------------------------------------------------------------
(* handlers in flight together: each call runs to its await, the store acts, *)
(* and the call resumes with the store's answer                              *)

MaxRequests == 3
MaxFlightDays == 10

\* uuidv4() in a call started while others are in flight
CallUuid(k) == Uuid(2 * Len(requests) + k)

\* a handler call suspended at its await, with the storage call it issued; the
\* call's constants (eventData, startDate) are the arguments of that call
Awaiting(op, input, call) ==
    [ op |-> op, input |-> input, began |-> now, phase |-> "awaiting", call |-> call,
      outcome |-> Undefined, read |-> <<>>, res |-> NoResponse ]

\* a handler call that has sent its response
Answered(r, outcome, read, response) ==
    [r EXCEPT !.phase = "answered", !.outcome = outcome, !.read = read, !.res = response]

\* a handler whose constants are module-level variables: every call of a
\* handler sees what the latest call of that handler assigned
FrameShared(i) ==
    LET same == { j \in 1..Len(requests) : requests[j].op = requests[i].op }
        latest == CHOOSE j \in same : \A k \in same : k <= j
    IN  requests[latest].call

\* the const bindings of the i-th call: its own, made when it ran to its await
Frame(i) == requests[i].call

\* trackEvent up to `await supabase.from(..).insert(..)`
trackEventBegin(body, ctx) ==
    LET v == eventSchemaValidate(body)
        row == eventData(v.value, ctx, CallUuid(1), CallUuid(2))
        input == [body |-> body, ctx |-> ctx]
    IN  /\ requests' =
              Append(requests,
                     IF Truthy(v.error)
                     THEN Answered(Awaiting("trackEvent", input, Undefined),
                                   Undefined, <<>>, ValidationResponse(v.error))
                     ELSE Awaiting("trackEvent", input, InsertCall(row)))
        /\ UNCHANGED <<events, notes, now, req, calls, res>>

\* the store performs the insert of the i-th call and the call resumes
trackEventResume(i, outcome) ==
    LET row == Frame(i).rows[1]
    IN  /\ requests[i].op = "trackEvent" /\ requests[i].phase = "awaiting"
        /\ events' = IF outcome.stored THEN Inserted(events, row) ELSE events
        /\ requests' = [requests EXCEPT ![i] = Answered(@, outcome, <<>>, TrackResponse(outcome, row))]
        /\ UNCHANGED <<notes, now, req, calls, res>>

\* getAnalyticsSummary up to `await query`
getAnalyticsSummaryBegin(user_id, daysParam) ==
    LET days == IF daysParam.t = "undefined" THEN Num(DefaultDays) ELSE daysParam
        window == parseInt(days)
        input == [user_id |-> user_id, days |-> daysParam]
    IN  /\ requests' =
              Append(requests,
                     IF window.nan
                     THEN Answered(Awaiting("getAnalyticsSummary", input, Undefined),
                                   Undefined, <<>>,
                                   FaultResponse("Failed to fetch analytics summary",
                                                 Str("Invalid time value")))
                     ELSE Awaiting("getAnalyticsSummary", input, SummaryCall(user_id, window)))
        /\ UNCHANGED <<events, notes, now, req, calls, res>>

\* the store runs the query of the i-th call over the events it holds at that
\* moment and the call resumes
getAnalyticsSummaryResume(i, outcome) ==
    LET r == requests[i]
        days == IF r.input.days.t = "undefined" THEN Num(DefaultDays) ELSE r.input.days
        positions == SummaryRowsSince(r.input.user_id, Frame(i).rows[1].gte, outcome.tie)
        data == IF outcome.kind = "null" THEN <<>>
                ELSE [k \in 1..Len(positions) |-> SummaryColumns(events[positions[k]])]
    IN  /\ r.op = "getAnalyticsSummary" /\ r.phase = "awaiting"
        /\ requests' =
              [requests EXCEPT ![i] =
                  Answered(@, outcome, events,
                           IF Faulted(outcome)
                           THEN FaultResponse("Failed to fetch analytics summary", outcome.message)
                           ELSE SummaryResponse(r.input.user_id, days, data))]
        /\ UNCHANGED <<events, notes, now, req, calls, res>>

FlightBodies == { MinimalBody, FullBody }

FlightInsertOutcomes ==
    { [kind |-> "record", stored |-> TRUE], [kind |-> "throw", stored |-> FALSE] }

\* the query strings of the summary requests in flight: <<user_id, days>>
FlightQueries == { <<Undefined, Undefined>>, <<Str("u1"), Txt(<<"5">>)>> }

FlightQueryOutcomes ==
    { o \in QueryOutcomes : o.kind \in {"rows", "error"} }

NextFlight ==
    \/ \E body \in FlightBodies :
          Len(requests) < MaxRequests /\ trackEventBegin(body, FullContext)
    \/ \E i \in 1..Len(requests), outcome \in FlightInsertOutcomes : trackEventResume(i, outcome)
    \/ \E q \in FlightQueries :
          Len(requests) < MaxRequests /\ getAnalyticsSummaryBegin(q[1], q[2])
    \/ \E i \in 1..Len(requests), outcome \in FlightQueryOutcomes :
          getAnalyticsSummaryResume(i, outcome)
    \/ now + 10 * HoursPerDay <= MaxFlightDays * HoursPerDay /\ Tick(10 * HoursPerDay)

InitFlight == Quiet /\ notes = <<>>

SpecFlight == InitFlight /\ [][NextFlight]_vars

\* a stored event or response record without what the call generated: the
\* id, the timestamp, and the session id when it is a generated one
Strip(e) ==
    [e EXCEPT !.id = Undefined, !.created_at = 0,
              !.session_id = IF "n" \in DOMAIN @ THEN Undefined ELSE @]

\* the event a trackEvent request asks for, from its own payload and context
Asked(input) == Strip(eventData(input.body, input.ctx, Undefined, Undefined))

AnsweredCalls(op) ==
    { i \in 1..Len(requests) : requests[i].op = op /\ requests[i].phase = "answered" }

\* the trackEvent calls whose insert reached the table
StoredCalls ==
    { i \in AnsweredCalls("trackEvent") :
        requests[i].outcome # Undefined /\ requests[i].outcome.stored }

\* C11: with handler calls in flight together and their storage calls
\* completing in any order, (a) the stored events are, up to generated ids
\* and timestamps, exactly the events the requests whose insert was stored
\* asked for, each as many times as it was asked for, whatever order the
\* inserts completed in; (b) every response is determined by the request's own
\* input and the store content it read: a trackEvent response carries the
\* request's own event, a summary counts the events of its own window and
\* scope in the table as it was when its query ran; (c) two summary requests
\* with the same query, started at the same instant, that read the same store
\* content in the same order get the same response.
C11_RequestsIndependent ==
    /\ \A x \in { Strip(events[k]) : k \in 1..Len(events) }
                \cup { Asked(requests[i].input) : i \in StoredCalls } :
          Cardinality({ k \in 1..Len(events) : Strip(events[k]) = x })
             = Cardinality({ i \in StoredCalls : Asked(requests[i].input) = x })
    /\ \A i \in AnsweredCalls("trackEvent") :
          /\ requests[i].res.status = 200 /\ requests[i].res.success
          /\ requests[i].outcome.kind = "record" =>
                Strip(requests[i].res.data.f) = Asked(requests[i].input)
    /\ \A i \in AnsweredCalls("getAnalyticsSummary") :
          LET r == requests[i]
              since == r.began - DaysAsked(r.input.days) * 24
              counted == { k \in 1..Len(r.read) :
                             /\ r.read[k].created_at >= since
                             /\ (OwnerGiven(r.input.user_id) /\ r.input.user_id # Str("anonymous"))
                                   => r.read[k].user_id = r.input.user_id }
          IN  r.outcome.kind = "rows" =>
                 /\ r.res.status = 200 /\ r.res.success
                 /\ r.res.data.f.total_events = Cardinality(counted)
                 /\ \A k \in counted :
                       r.read[k].event_type.s \in DOMAIN r.res.data.f.events_by_type
                 /\ r.res.user_id = OwnerEcho(r.input.user_id)
    /\ \A i, j \in AnsweredCalls("getAnalyticsSummary") :
          ( /\ requests[i].input = requests[j].input
            /\ requests[i].began = requests[j].began
            /\ requests[i].read = requests[j].read
            /\ requests[i].outcome = requests[j].outcome )
             => requests[i].res = requests[j].res

\* two trackEvent calls in flight together whose inserts completed in the
\* reverse of the order they were issued in, and a summary that ran between
\* the two inserts and counted the one event stored by then
C11_Witness ==
    /\ Len(requests) = 3 /\ Len(events) = 2
    /\ requests[1].op = "trackEvent" /\ requests[2].op = "trackEvent"
    /\ requests[1].input # requests[2].input
    /\ events[1].id = requests[2].call.rows[1].id
    /\ events[2].id = requests[1].call.rows[1].id
    /\ requests[3].op = "getAnalyticsSummary" /\ requests[3].phase = "answered"
    /\ requests[3].outcome.kind = "rows" /\ Len(requests[3].read) = 1
    /\ requests[3].res.data.f.total_events = 1

----------------------------------------------------------------------------
(* the application: the routers it mounts and the requests it dispatches *)

\* a path is the sequence of its segments: /api/notes is <<"api", "notes">>

\* router.<method>(path, handler) of the analytics router
analyticsRoutes ==
    << [method |-> "POST", path |-> <<"track">>, handler |-> "trackEvent"],
       [method |-> "GET", path |-> <<"summary">>, handler |-> "getAnalyticsSummary"],
       [method |-> "GET", path |-> <<"tags">>, handler |-> "getPopularTags"],
       [method |-> "GET", path |-> <<"stats">>, handler |-> "getUsageStats"] >>

\* router.<method>(path, handler) of the notes router
notesRoutes ==
    << [method |-> "GET", path |-> <<>>, handler |-> "getAllNotes"],
       [method |-> "GET", path |-> <<"search">>, handler |-> "searchNotes"],
       [method |-> "GET", path |-> <<"tag", ":tag">>, handler |-> "getNotesByTag"],
       [method |-> "GET", path |-> <<":id">>, handler |-> "getNoteById"],
       [method |-> "POST", path |-> <<>>, handler |-> "createNote"],
       [method |-> "PUT", path |-> <<":id">>, handler |-> "updateNote"],
       [method |-> "DELETE", path |-> <<":id">>, handler |-> "deleteNote"] >>

\* app.use(path, router), in the order of the calls
Mounts == << [path |-> <<"api", "notes">>, router |-> notesRoutes] >>

IsPrefix(p, path) == Len(p) <= Len(path) /\ SubSeq(path, 1, Len(p)) = p

\* a route path matches when each segment is equal or is a parameter
Matches(pattern, path) ==
    /\ Len(pattern) = Len(path)
    /\ \A i \in 1..Len(pattern) : pattern[i] \in {":id", ":tag"} \/ pattern[i] = path[i]

\* the handlers of the routes of mounts that match, first mount and first
\* route first
RECURSIVE Handlers(_, _, _)
Handlers(mounts, method, path) ==
    IF mounts = <<>> THEN <<>>
    ELSE LET m == Head(mounts)
             rest == SubSeq(path, Len(m.path) + 1, Len(path))
             hits == IF IsPrefix(m.path, path)
                     THEN SelectSeq(m.router, LAMBDA r : r.method = method /\ Matches(r.path, rest))
                     ELSE <<>>
         IN  [i \in 1..Len(hits) |-> hits[i].handler] \o Handlers(Tail(mounts), method, path)

\* the handler the application calls for a request, "none" when no mounted
\* route matches
Dispatch(method, path) ==
    LET hits == Handlers(Mounts, method, path)
    IN  IF hits = <<>> THEN "none" ELSE hits[1]

\* no middleware took the request: the framework answers 404 and no handler
\* runs
notFound(method, path, input) ==
    /\ req' = [op |-> "notFound", method |-> method, path |-> path, input |-> input]
    /\ calls' = <<>>
    /\ res' = [NoResponse EXCEPT !.status = 404, !.error = Str("Not Found")]
    /\ UNCHANGED <<events, notes, now, requests>>

\* GET /api/notes?user_id=..
getAllNotes(user_id, outcome) ==
    LET S == { i \in 1..Len(notes) : Truthy(user_id) => notes[i].user_id = user_id }
        positions == OrderDesc(S, [i \in S |-> notes[i].created_at], outcome.tie)
        data == IF outcome.kind = "null" THEN <<>>
                ELSE [i \in 1..Len(positions) |-> notes[positions[i]]]
    IN  /\ req' = [op |-> "getAllNotes", user_id |-> user_id, outcome |-> outcome]
        /\ calls' = << [ op |-> "select", table |-> TableName("NOTES"),
                         rows |-> << [owner |-> IF Truthy(user_id) THEN user_id ELSE Undefined] >> ] >>
        /\ res' = IF Faulted(outcome)
                  THEN FaultResponse("Failed to fetch notes", outcome.message)
                  ELSE [Json(200, TRUE) EXCEPT !.data = [t |-> "array", a |-> data],
                                               !.count = Num(Len(data))]
        /\ UNCHANGED <<events, notes, now, requests>>

\* the application takes a request: the handler of the first matching route
\* of a mounted router runs, or none does
app(method, path, input, outcome) ==
    LET handler == Dispatch(method, path)
    IN  CASE handler = "none" -> notFound(method, path, input)
          [] handler = "getAllNotes" -> getAllNotes(input.user_id, outcome)
          [] handler = "trackEvent" -> trackEvent(input.body, input.ctx, outcome)
          [] handler = "getAnalyticsSummary" ->
                getAnalyticsSummary(input.user_id, input.days, outcome)

MaxAppDays == 30

TrackPath == <<"api", "analytics", "track">>
SummaryPath == <<"api", "analytics", "summary">>
NotesPath == <<"api", "notes">>

NextApp ==
    \/ \E body \in {MinimalBody, FullBody, Obj([event_type |-> Str("bogus")])},
          ctx \in {FullContext, NoAgentContext},
          outcome \in { [kind |-> "record", stored |-> TRUE], [kind |-> "error", stored |-> FALSE] } :
          Idle /\ app("POST", TrackPath, [body |-> body, ctx |-> ctx], outcome)
    \/ \E user_id \in {Undefined, Str("anonymous"), Str("u1")}, days \in {Undefined, Txt(<<"7">>)},
          outcome \in QueryOutcomes :
          Idle /\ app("GET", SummaryPath, [user_id |-> user_id, days |-> days], outcome)
    \/ \E user_id \in {Undefined, Str("u1"), Str("u2")}, outcome \in QueryOutcomes :
          Idle /\ app("GET", NotesPath, [user_id |-> user_id], outcome)
    \/ \E d \in Jumps : Idle /\ now + d <= MaxAppDays * HoursPerDay /\ Tick(d)
    \/ endRequest

InitApp == Quiet /\ notes \in { <<>>, NoteCandidates }

SpecApp == InitApp /\ [][NextApp]_vars

\* the request at hand is a POST /api/analytics/track, whether or not a
\* handler took it
PostedTrack ==
    \/ req.op = "trackEvent"
    \/ req.op = "notFound" /\ req.method = "POST" /\ req.path = TrackPath

PostedBody == IF req.op = "trackEvent" THEN req.body ELSE req.input.body

\* the insert of the request at hand was answered with an error or threw
InsertFaulted == req.op = "trackEvent" /\ req.outcome.kind # "record"

\* the request at hand is a GET /api/analytics/summary
AskedSummary ==
    \/ req.op = "getAnalyticsSummary"
    \/ req.op = "notFound" /\ req.method = "GET" /\ req.path = SummaryPath

SummaryQuery == IF req.op = "getAnalyticsSummary" THEN req ELSE req.input

\* C12: once a POST /api/analytics/track with a valid payload is answered
\* and no insert faulted, the event is in the analytics table; and a GET
\* /api/analytics/summary over a table holding events that its window covers
\* and its scope admits (absent, "anonymous" or the event's user_id) is
\* answered with success and counts each of them in total_events and in
\* events_by_type.
C12_IngestedEventsAreSummarized ==
    /\ (PostedTrack /\ PassesValidation(PostedBody) /\ ~InsertFaulted) =>
          \E k \in 1..Len(events) :
              /\ events[k].event_type = Get(PostedBody, "event_type")
              /\ events[k].created_at = now
    /\ (AskedSummary /\ (SummaryQuery.days = Undefined \/ IsNumeral(SummaryQuery.days))
          /\ (req.op = "getAnalyticsSummary" => req.outcome.kind = "rows")) =>
          LET scope == EventsInScope(SummaryQuery.user_id, DaysAsked(SummaryQuery.days))
          IN  scope # {} =>
                 /\ res.status = 200 /\ res.success
                 /\ res.data.f.total_events = Cardinality(scope)
                 /\ \A k \in scope :
                       /\ events[k].event_type.s \in DOMAIN res.data.f.events_by_type
                       /\ res.data.f.events_by_type[events[k].event_type.s] >= 1

----------------------------------------------------------------------------
(* the aggregates of one summary response *)

\* the sum of the values of a mapping
RECURSIVE SumOf(_)
SumOf(f) ==
    IF DOMAIN f = {} THEN 0
    ELSE LET k == CHOOSE k \in DOMAIN f : TRUE
         IN  f[k] + SumOf([j \in DOMAIN f \ {k} |-> f[j]])

\* C13: in every successful summary response the counts of events_by_type
\* add up to total_events, the counts of daily_activity add up to
\* total_events, every count is at least 1, and the events of recent_events
\* are among the events counted: there are no more of them than
\* total_events, and no more of a type or of a day than that type's or that
\* day's count.
C13_SummaryAggregatesAgree ==
    (Summarized /\ res.success) =>
        LET summary == res.data.f
            recent == summary.recent_events
            ofType(k) == Cardinality({ i \in 1..Len(recent) : recent[i].event_type.s = k })
            ofDay(d) == Cardinality({ i \in 1..Len(recent) : recent[i].created_at \div 24 = d })
        IN  /\ SumOf(summary.events_by_type) = summary.total_events
            /\ SumOf(summary.daily_activity) = summary.total_events
            /\ \A k \in DOMAIN summary.events_by_type : summary.events_by_type[k] >= 1
            /\ \A d \in DOMAIN summary.daily_activity : summary.daily_activity[d] >= 1
            /\ Len(recent) <= summary.total_events
            /\ \A i \in 1..Len(recent) :
                  /\ recent[i].event_type.s \in DOMAIN summary.events_by_type
                  /\ ofType(recent[i].event_type.s)
                        <= summary.events_by_type[recent[i].event_type.s]
                  /\ (recent[i].created_at \div 24) \in DOMAIN summary.daily_activity
                  /\ ofDay(recent[i].created_at \div 24)
                        <= summary.daily_activity[recent[i].created_at \div 24]

\* a summary of three events of two types created on two days: the counts
\* are 2 and 1 both by type and by day
C13_Witness ==
    /\ Summarized /\ res.success
    /\ res.data.f.total_events = 3
    /\ Cardinality(DOMAIN res.data.f.events_by_type) = 2
    /\ Cardinality(DOMAIN res.data.f.daily_activity) = 2
    /\ \E k \in DOMAIN res.data.f.events_by_type : res.data.f.events_by_type[k] = 2
    /\ Len(res.data.f.recent_events) = 3

=============================================================================
